---- MODULE Spec2Model ----
(***************************************************************************)
(* Model of the DCA simulators of Simulateur_DCA_OR:                       *)
(*   GoldDCASimulator   (src/dca_simulation.py)   historical replay        *)
(*   MonteCarloGoldDCA  (src/monte_carlo_dca.py)  synthetic trajectories   *)
(*   GoldVolatilityAnalysis (src/volatility_analysis.py) drift/volatility  *)
(*                                                                         *)
(* Numbers.  The program computes on numpy float64 values.  A value is     *)
(* modelled as an extended rational <<n, d>> in lowest terms with d >= 0:  *)
(* d > 0 is the finite number n/d, <<1,0>> is +inf, <<-1,0>> is -inf and   *)
(* <<0,0>> is nan, with the IEEE outcomes of numpy for a division by zero  *)
(* (inf or nan, never an exception).  Rounding is not modelled.            *)
(***************************************************************************)
EXTENDS Integers, Sequences, FiniteSets, TLC

----------------------------------------------------------------------------
(* Extended rational arithmetic                                            *)

Abs(n) == IF n < 0 THEN -n ELSE n

Sign(n) == IF n < 0 THEN -1 ELSE IF n > 0 THEN 1 ELSE 0

RECURSIVE GCD(_, _)
GCD(a, b) == IF b = 0 THEN a ELSE GCD(b, a % b)

Norm(n, d) ==
    IF d = 0 THEN <<Sign(n), 0>>
    ELSE LET s == IF d < 0 THEN -1 ELSE 1
             g == GCD(Abs(n), Abs(d))
         IN  <<(s * n) \div g, (s * d) \div g>>

R(n) == <<n, 1>>
Zero == <<0, 1>>
One == <<1, 1>>
Hundred == <<100, 1>>
Half == <<1, 2>>
PosInf == <<1, 0>>
NegInf == <<-1, 0>>
NaN == <<0, 0>>

IsNaN(a) == a[2] = 0 /\ a[1] = 0
IsInf(a) == a[2] = 0 /\ a[1] # 0
IsFinite(a) == a[2] > 0

Neg(a) == <<-a[1], a[2]>>

Add(a, b) ==
    IF IsNaN(a) \/ IsNaN(b) THEN NaN
    ELSE IF IsInf(a) /\ IsInf(b) THEN (IF a[1] = b[1] THEN a ELSE NaN)
    ELSE IF IsInf(a) THEN a
    ELSE IF IsInf(b) THEN b
    ELSE Norm(a[1] * b[2] + b[1] * a[2], a[2] * b[2])

Sub(a, b) == Add(a, Neg(b))

Mul(a, b) == Norm(a[1] * b[1], a[2] * b[2])

Div(a, b) ==
    IF b[1] < 0 THEN Norm(-(a[1] * b[2]), -(a[2] * b[1]))
    ELSE Norm(a[1] * b[2], a[2] * b[1])

Lt(a, b) ==
    IF IsNaN(a) \/ IsNaN(b) THEN FALSE
    ELSE IF IsInf(a) /\ IsInf(b) THEN a[1] < b[1]
    ELSE a[1] * b[2] < b[1] * a[2]

Gt(a, b) == Lt(b, a)
Le(a, b) == Lt(a, b) \/ (~IsNaN(a) /\ ~IsNaN(b) /\ ~Lt(b, a))
Ge(a, b) == Le(b, a)

----------------------------------------------------------------------------
(* Bounds of the model                                                     *)

MaxAnnees == 3        \* largest nombre_annees given to configure_simulation
MaxSims == 2          \* nb_simulations ranges over 0..MaxSims
LongueurBande == 2    \* period of the modelled pseudo-random generator

----------------------------------------------------------------------------
(* Data files: the year-indexed price series read by the constructors      *)

Serie(f) == [a \in DOMAIN f |-> R(f[a])]

SerieContigue == Serie((2000 :> 1) @@ (2001 :> 1) @@ (2002 :> 2) @@ (2003 :> 6))
SerieTrouee   == Serie((2000 :> 2) @@ (2001 :> 2) @@ (2003 :> 2))
SerieCourte   == Serie((2001 :> 1) @@ (2002 :> 2) @@ (2003 :> 4))

DataFiles == {SerieContigue, SerieTrouee, SerieCourte}

\* a series reaching back into the Stabilization era: one return there
\* (2000), three in the Modern era, and whole-series statistics that differ
\* from those of the Modern era
SerieLongue ==
    Serie((1999 :> 1) @@ (2000 :> 3) @@ (2001 :> 3) @@ (2002 :> 3) @@ (2003 :> 3))

\* a series of two rows: a single return, in the Modern era
SerieDeuxAns == Serie((2002 :> 1) @@ (2003 :> 2))

\* the data files given to a GoldVolatilityAnalysis used on its own
DataFilesAnalyse == DataFiles \cup {SerieLongue, SerieDeuxAns}

Annees == 2000..2003
Montants == {R(-1), Zero, One}       \* amounts given to GoldDCASimulator
\* nombre_annees given to GoldDCASimulator: negative, zero and positive
NombresAnnees == (0 - 1)..MaxAnnees
MontantsMC == {Zero, One}            \* amounts given to MonteCarloGoldDCA

\* Output tables of the process-wide generator: the draw made in each of its
\* LongueurBande states.  The draws of one table are pairwise distinct and of
\* both signs; the two tables are opposite.
Bandes ==
    {[k \in 1..LongueurBande |->
         R(s * (IF k % 2 = 1 THEN (k + 1) \div 2 ELSE -(k \div 2)))] : s \in {1, -1}}
\* period argument of configure_simulation: its default; the other names are
\* given to get_monte_carlo_params directly (NomsDemandes)
NomsPeriodes == {"Modern_Era"}

\* period arguments of direct get_monte_carlo_params calls: era names with
\* and without data, and a name absent from the era table
NomsDemandes == {"Modern_Era", "Stabilization", "Gold_Standard", "Inconnue"}

VARIABLES
    df,              \* the price series of the data file (Date -> Price)
    hist,            \* fields of the GoldDCASimulator object
    hist_args,       \* arguments of its most recent configure_simulation call
    hist_issue,      \* how the simuler_dca call made under the current
                     \* configuration ended ("idle" before any such call)
    hist_resultats,  \* the dictionary that call returned
    mc,              \* fields of the MonteCarloGoldDCA object
    mc_args,         \* arguments of its most recent configure_simulation call
    analyseur,       \* Returns column of its GoldVolatilityAnalysis (Date -> return)
    mc_params,       \* dictionary returned by the last get_monte_carlo_params call
    bande,           \* output of the process-wide generator at each of its states
    rng,             \* state of the process-wide generator (np.random)
    gen,             \* the calls of generer_trajectoires_prix made under the
                     \* current configuration and the matrices they returned
    mc_issue,        \* how the simuler_dca_monte_carlo call made under the
                     \* current configuration ended
    mc_resultats,    \* the dictionary that call returned
    mc_locaux,       \* per trajectory, the locals of its last loop iteration
    period_demandee, \* argument of the last get_monte_carlo_params call
    period_analysis, \* dictionary returned by the last direct analyze_periods call
    statistiques,    \* outcome of calculer_statistiques on the result of the
                     \* run made under the current configuration
    hybride,         \* outcome of the last HybridDCASimulator.simulation_complete
                     \* call, hist and mc being the two simulators it holds
    menu             \* position of menu_principal and outcome of the last choice

varsAnalyse == <<period_demandee, period_analysis>>
varsHist == <<hist, hist_args, hist_issue, hist_resultats>>
varsMC == <<mc, mc_args, analyseur, mc_params, bande, rng, gen, mc_issue, mc_resultats, mc_locaux,
            varsAnalyse, statistiques>>
vars == <<df, varsHist, varsMC, hybride, menu>>

----------------------------------------------------------------------------
(* GoldDCASimulator                                                        *)

\* state of a fresh object (constructor defaults, scaled to the model)
HistDefaults ==
    [investissement_annuel |-> One, nombre_annees |-> 2,
     frais_par_once |-> One, annee_debut |-> 2000]

ResultatsVides ==
    [annees |-> <<>>, prix_or |-> <<>>, investissement_cumule |-> <<>>,
     onces_achetees_annee |-> <<>>, onces_totales |-> <<>>,
     valeur_portefeuille |-> <<>>, frais_totaux |-> <<>>,
     profit_perte |-> <<>>, rendement_pourcent |-> <<>>]

PasAppele == [etat |-> "idle", annee |-> 0]

\* configure_simulation not called yet on the object
PasDArguments == [k \in {} |-> Zero]

\* onces_achetees = self.investissement_annuel / prix_or
OncesAchetees(investissement_annuel, prix_or) == Div(investissement_annuel, prix_or)

\* onces_totales after the purchases of the first k periods (0.0 before any)
RECURSIVE OncesTotales(_, _, _)
OncesTotales(prix, investissement_annuel, k) ==
    IF k = 0 THEN Zero
    ELSE Add(OncesTotales(prix, investissement_annuel, k - 1),
             OncesAchetees(investissement_annuel, prix[k]))

\* investissement_cumule after k periods (0.0 before any)
RECURSIVE InvestissementCumule(_, _)
InvestissementCumule(investissement_annuel, k) ==
    IF k = 0 THEN Zero
    ELSE Add(InvestissementCumule(investissement_annuel, k - 1), investissement_annuel)

\* variant: the elapsed-period factor counted from 0 instead of 1
FraisTotauxDepuisZero(onces_totales, frais_par_once, i) ==
    Mul(Mul(onces_totales, frais_par_once), R(i))

\* frais_totaux = onces_totales * self.frais_par_once * (i + 1)
FraisTotaux(onces_totales, frais_par_once, i) ==
    Mul(Mul(onces_totales, frais_par_once), R(i + 1))

\* variant: the division made without the guard
RendementSansGarde(profit_perte, investissement_cumule) ==
    Mul(Div(profit_perte, investissement_cumule), Hundred)

\* rendement_pourcent = (profit_perte / investissement_cumule) * 100
\*                      if investissement_cumule > 0 else 0
RendementPourcent(profit_perte, investissement_cumule) ==
    IF Gt(investissement_cumule, Zero)
    THEN Mul(Div(profit_perte, investissement_cumule), Hundred)
    ELSE Zero

\* the values computed by the loop body at 0-based period index i
Periode(prix, investissement_annuel, frais_par_once, i) ==
    LET prix_or == prix[i + 1]
        investissement_cumule == InvestissementCumule(investissement_annuel, i + 1)
        onces_achetees == OncesAchetees(investissement_annuel, prix_or)
        onces_totales == OncesTotales(prix, investissement_annuel, i + 1)
        valeur_portefeuille_brute == Mul(onces_totales, prix_or)
        frais_totaux == FraisTotaux(onces_totales, frais_par_once, i)
        valeur_portefeuille_nette == Sub(valeur_portefeuille_brute, frais_totaux)
        profit_perte == Sub(valeur_portefeuille_nette, investissement_cumule)
        rendement_pourcent == RendementPourcent(profit_perte, investissement_cumule)
    IN  [prix_or |-> prix_or,
         investissement_cumule |-> investissement_cumule,
         onces_achetees |-> onces_achetees,
         onces_totales |-> onces_totales,
         valeur_portefeuille_nette |-> valeur_portefeuille_nette,
         frais_totaux |-> frais_totaux,
         profit_perte |-> profit_perte,
         rendement_pourcent |-> rendement_pourcent]

\* the accumulation loop of simuler_dca over the price sequence prix
BoucleDCA(prix, annee_debut, investissement_annuel, frais_par_once) ==
    LET P(k) == Periode(prix, investissement_annuel, frais_par_once, k - 1)
        n == Len(prix)
    IN  [annees |-> [k \in 1..n |-> annee_debut + k - 1],
         prix_or |-> [k \in 1..n |-> P(k).prix_or],
         investissement_cumule |-> [k \in 1..n |-> P(k).investissement_cumule],
         onces_achetees_annee |-> [k \in 1..n |-> P(k).onces_achetees],
         onces_totales |-> [k \in 1..n |-> P(k).onces_totales],
         valeur_portefeuille |-> [k \in 1..n |-> P(k).valeur_portefeuille_nette],
         frais_totaux |-> [k \in 1..n |-> P(k).frais_totaux],
         profit_perte |-> [k \in 1..n |-> P(k).profit_perte],
         rendement_pourcent |-> [k \in 1..n |-> P(k).rendement_pourcent]]

\* the availability test made before the loop: "none" or the year reported
\* by the ValueError
AnneeRefusee(serie, annee_debut, annee_fin) ==
    IF annee_debut \notin DOMAIN serie THEN <<"ValueError", annee_debut>>
    ELSE IF annee_fin \notin DOMAIN serie THEN <<"ValueError", annee_fin>>
    ELSE <<"none", 0>>

\* first year of the loop whose lookup self.df.loc[annee, 'Price'] fails
AnneesAbsentes(serie, annee_debut, annee_fin) ==
    {a \in annee_debut..annee_fin : a \notin DOMAIN serie}

PremiereAbsente(serie, annee_debut, annee_fin) ==
    CHOOSE a \in AnneesAbsentes(serie, annee_debut, annee_fin) :
        \A b \in AnneesAbsentes(serie, annee_debut, annee_fin) : a <= b

\* variant: the fee argument is dropped, the object keeps its earlier fee
HistConfigureFraisConserves(investissement_annuel, nombre_annees, annee_debut, frais_par_once) ==
    /\ hist' = [investissement_annuel |-> investissement_annuel,
                nombre_annees |-> nombre_annees,
                annee_debut |-> annee_debut,
                frais_par_once |-> hist.frais_par_once]
    /\ hist_args' = [investissement_annuel |-> investissement_annuel,
                     nombre_annees |-> nombre_annees,
                     annee_debut |-> annee_debut,
                     frais_par_once |-> frais_par_once]
    /\ hist_issue' = PasAppele
    /\ hist_resultats' = ResultatsVides
    /\ UNCHANGED <<df, hybride, menu, varsMC>>

HistConfigure(investissement_annuel, nombre_annees, annee_debut, frais_par_once) ==
    /\ hist' = [investissement_annuel |-> investissement_annuel,
                nombre_annees |-> nombre_annees,
                annee_debut |-> annee_debut,
                frais_par_once |-> frais_par_once]
    /\ hist_args' = [investissement_annuel |-> investissement_annuel,
                     nombre_annees |-> nombre_annees,
                     annee_debut |-> annee_debut,
                     frais_par_once |-> frais_par_once]
    /\ hist_issue' = PasAppele
    /\ hist_resultats' = ResultatsVides
    /\ UNCHANGED <<df, hybride, menu, varsMC>>

\* how simuler_dca ends on an object with the fields h over the series
\* serie: the exception raised and the year it names, or "returned"
FinSimulerDca(h, serie) ==
    LET annee_fin == h.annee_debut + h.nombre_annees - 1
        refus == AnneeRefusee(serie, h.annee_debut, annee_fin)
    IN  IF refus[1] # "none" THEN [etat |-> refus[1], annee |-> refus[2]]
        ELSE IF AnneesAbsentes(serie, h.annee_debut, annee_fin) # {}
        THEN [etat |-> "KeyError",
              annee |-> PremiereAbsente(serie, h.annee_debut, annee_fin)]
        ELSE [etat |-> "returned", annee |-> 0]

\* len(range(annee_debut, annee_fin + 1)): the periods a returned run holds
NombrePeriodes(h) == IF h.nombre_annees > 0 THEN h.nombre_annees ELSE 0

\* the outcome of simuler_dca and the dictionary it returns
IssueSimulerDca(h, serie) ==
    [issue |-> FinSimulerDca(h, serie),
     resultats |->
         IF FinSimulerDca(h, serie).etat # "returned" THEN ResultatsVides
         ELSE BoucleDCA([k \in 1..h.nombre_annees |-> serie[h.annee_debut + k - 1]],
                        h.annee_debut, h.investissement_annuel, h.frais_par_once)]

SimulerDca ==
    /\ hist_issue' = IssueSimulerDca(hist, df).issue
    /\ hist_resultats' = IssueSimulerDca(hist, df).resultats
    /\ UNCHANGED <<df, hybride, menu, hist, hist_args, varsMC>>

----------------------------------------------------------------------------
(* GoldVolatilityAnalysis                                                  *)

\* rows of the data file sorted by Date: the row before year a
AnneePrecedente(serie, a) ==
    CHOOSE b \in DOMAIN serie : b < a /\ \A c \in DOMAIN serie : c < a => c <= b

\* p_t / p_{t-1} over adjacent rows
Ratio(serie, a) == Div(serie[a], serie[AnneePrecedente(serie, a)])

\* the rows left by dropna(): the first row has no return, and a row is
\* dropped when Returns or Log_Returns is nan (log of a negative ratio)
AnneesAvecRendement(serie) ==
    {a \in DOMAIN serie :
        /\ \E b \in DOMAIN serie : b < a
        /\ ~IsNaN(Ratio(serie, a))
        /\ Ge(Ratio(serie, a), Zero)}

\* df['Returns'] = df['Price'].pct_change()
Returns(serie) == [a \in AnneesAvecRendement(serie) |-> Sub(Ratio(serie, a), One)]

RECURSIVE SommeSur(_, _)
SommeSur(f, S) ==
    IF S = {} THEN Zero
    ELSE LET a == CHOOSE x \in S : \A y \in S : x <= y
         IN  Add(f[a], SommeSur(f, S \ {a}))

\* Series.mean(): nan for an empty selection
Moyenne(f, S) == Div(SommeSur(f, S), R(Cardinality(S)))

\* integer square root, exact on the perfect squares
ISqrt(n) == CHOOSE r \in 0..n : r * r <= n /\ (r + 1) * (r + 1) > n

\* square root; the data files of the model have variances whose root is
\* rational
Racine(a) ==
    IF IsNaN(a) \/ Lt(a, Zero) THEN NaN
    ELSE IF IsInf(a) THEN a
    ELSE Norm(ISqrt(a[1]), ISqrt(a[2]))

\* Series.std(): sample standard deviation (ddof = 1), nan under 2 values
EcartType(f, S) ==
    IF Cardinality(S) <= 1 THEN NaN
    ELSE LET m == Moyenne(f, S)
             ecarts == [a \in S |-> Mul(Sub(f[a], m), Sub(f[a], m))]
         IN  Racine(Div(SommeSur(ecarts, S), R(Cardinality(S) - 1)))

\* the era table of analyze_periods
Periodes ==
    ("Gold_Standard" :> <<1833, 1971>>) @@ ("Post_Bretton_Woods" :> <<1972, 1980>>) @@
    ("Stabilization" :> <<1981, 2000>>) @@ ("Modern_Era" :> <<2001, 2024>>)

\* period_data = self.df[(self.df.index >= start) & (self.df.index <= end)]
AnneesPeriode(returns, nom) ==
    {a \in DOMAIN returns : a >= Periodes[nom][1] /\ a <= Periodes[nom][2]}

\* variant: an era is kept as soon as its window holds one row
PeriodesNonVides(returns) ==
    {nom \in DOMAIN Periodes : Cardinality(AnneesPeriode(returns, nom)) > 0}

\* the keys of the dictionary returned by analyze_periods
PeriodesAnalysees(returns) ==
    {nom \in DOMAIN Periodes : Cardinality(AnneesPeriode(returns, nom)) > 1}

\* Series.min() and Series.max() over the rows S
MinSur(f, S) == CHOOSE x \in {f[a] : a \in S} : \A a \in S : Le(x, f[a])
MaxSur(f, S) == CHOOSE x \in {f[a] : a \in S} : \A a \in S : Le(f[a], x)

\* the dictionary returned by analyze_periods
AnalyzePeriods(returns) ==
    [nom \in PeriodesAnalysees(returns) |->
        LET S == AnneesPeriode(returns, nom)
        IN  [years |-> Periodes[nom],
             mean_return |-> Moyenne(returns, S),
             std_return |-> EcartType(returns, S),
             min_return |-> MinSur(returns, S),
             max_return |-> MaxSur(returns, S),
             count |-> Cardinality(S)]]

PasDAnalyse == [etat |-> "idle", entrees |-> [nom \in {} |-> Zero]]

\* variant: without an entry for the period, the Modern_Era window is used
GetMonteCarloParamsRepliModerne(returns, period) ==
    IF period \in PeriodesAnalysees(returns)
    THEN [drift |-> Moyenne(returns, AnneesPeriode(returns, period)),
          volatility |-> EcartType(returns, AnneesPeriode(returns, period)),
          period_used |-> period]
    ELSE [drift |-> Moyenne(returns, AnneesPeriode(returns, "Modern_Era")),
          volatility |-> EcartType(returns, AnneesPeriode(returns, "Modern_Era")),
          period_used |-> period]

GetMonteCarloParams(returns, period) ==
    IF period \in PeriodesAnalysees(returns)
    THEN [drift |-> Moyenne(returns, AnneesPeriode(returns, period)),
          volatility |-> EcartType(returns, AnneesPeriode(returns, period)),
          period_used |-> period]
    ELSE [drift |-> Moyenne(returns, DOMAIN returns),
          volatility |-> EcartType(returns, DOMAIN returns),
          period_used |-> period]

\* a direct call of analyze_periods (print_analysis_report)
AnalyzePeriodsAppel ==
    /\ period_analysis' = [etat |-> "returned", entrees |-> AnalyzePeriods(analyseur)]
    /\ UNCHANGED <<df, hybride, menu, varsHist, mc, mc_args, analyseur, mc_params, bande, rng, gen, mc_issue,
                   mc_resultats, mc_locaux, period_demandee, statistiques>>

\* a direct call of get_monte_carlo_params(period) (comparaison_periodes_volatilite)
GetMonteCarloParamsAppel(period) ==
    /\ period_demandee' = period
    /\ mc_params' = GetMonteCarloParams(analyseur, period)
    /\ UNCHANGED <<df, hybride, menu, varsHist, mc, mc_args, analyseur, bande, rng, gen, mc_issue,
                   mc_resultats, mc_locaux, period_analysis, statistiques>>

----------------------------------------------------------------------------
(* MonteCarloGoldDCA                                                       *)

\* state of a fresh object (constructor defaults, scaled to the model)
McDefaults ==
    [investissement_annuel |-> One, nombre_annees |-> 2, frais_par_once |-> One,
     prix_initial |-> One, nb_simulations |-> 1, drift |-> One, volatility |-> One]

McResultatsVides ==
    [valeurs_finales |-> <<>>, rendements_finaux |-> <<>>, onces_finales |-> <<>>,
     investissement_total |-> Zero, prix_trajectoires |-> <<>>, profits_finaux |-> <<>>]

McPasAppele == [etat |-> "idle"]

GenPasAppele == [appels |-> 0, etat |-> "idle", rng_avant |-> 0,
                 derniere |-> <<>>, precedente |-> <<>>]

RECURSIVE Pow2(_)
Pow2(m) == IF m = 0 THEN 1 ELSE 2 * Pow2(m - 1)

\* np.exp.  The exponential is taken in base 4 on the half-integers (the
\* exponents the data files of the model produce), which keeps exp(0) = 1,
\* exp(a + b) = exp(a) * exp(b), positivity and monotonicity with rational
\* values; exp(-inf) = 0, exp(inf) = inf, exp(nan) = nan.
Exp(x) ==
    IF IsNaN(x) THEN NaN
    ELSE IF x = PosInf THEN PosInf
    ELSE IF x = NegInf THEN Zero
    ELSE LET m == (2 * x[1]) \div x[2]
         IN  IF m >= 0 THEN <<Pow2(m), 1>> ELSE <<1, Pow2(-m)>>

\* generator state set by np.random.seed(42)
Graine42 == 0

\* variant: the generator is not reseeded, draws start at its current state
DepartSansGraine(etat_rng) == etat_rng

\* state of the generator when the shocks are drawn: np.random.seed(42)
\* replaces whatever state the generator was in
DepartTirage(etat_rng) == Graine42

\* the k-th draw (0-based) made from generator state depart
Tirage(b, depart, k) == b[((depart + k) % Len(b)) + 1]

\* variant: the draws fill the array column by column (period outermost)
ChocsParColonne(b, depart, nb_simulations, nombre_annees) ==
    [i \in 1..nb_simulations |->
        [t \in 1..(nombre_annees - 1) |->
            Tirage(b, depart, (t - 1) * nb_simulations + (i - 1))]]

\* chocs_aleatoires = np.random.normal(0, 1, (nb_simulations, nombre_annees - 1)):
\* the draws fill the array row by row
ChocsAleatoires(b, depart, nb_simulations, nombre_annees) ==
    [i \in 1..nb_simulations |->
        [t \in 1..(nombre_annees - 1) |->
            Tirage(b, depart, (i - 1) * (nombre_annees - 1) + (t - 1))]]

\* variant: the shock enters the exponent without its volatility factor
FacteurChocBrut(drift, volatility, choc) ==
    Exp(Add(Sub(drift, Mul(Half, Mul(volatility, volatility))), choc))

\* variant: the return of the step taken as its factor, without exponential
FacteurRendement(drift, volatility, choc) == Add(drift, Mul(volatility, choc))

\* exp((drift - 0.5 * volatility**2) + volatility * choc)
Facteur(drift, volatility, choc) ==
    Exp(Add(Sub(drift, Mul(Half, Mul(volatility, volatility))), Mul(volatility, choc)))

\* variant: period 0 already carries one step of drift
RECURSIVE PrixSimuleDeriveInitiale(_, _, _, _, _)
PrixSimuleDeriveInitiale(prix_initial, drift, volatility, chocs, t) ==
    IF t = 0 THEN Mul(prix_initial, Facteur(drift, volatility, Zero))
    ELSE Mul(PrixSimuleDeriveInitiale(prix_initial, drift, volatility, chocs, t - 1),
             Facteur(drift, volatility, chocs[t]))

\* prix_simules[i, t] for the shocks of trajectory i (t is 0-based)
RECURSIVE PrixSimule(_, _, _, _, _)
PrixSimule(prix_initial, drift, volatility, chocs, t) ==
    IF t = 0 THEN prix_initial
    ELSE Mul(PrixSimule(prix_initial, drift, volatility, chocs, t - 1),
             Facteur(drift, volatility, chocs[t]))

\* the matrix returned by generer_trajectoires_prix
PrixSimules(m, b, depart) ==
    LET chocs == ChocsAleatoires(b, depart, m.nb_simulations, m.nombre_annees)
    IN  [i \in 1..m.nb_simulations |->
            [c \in 1..m.nombre_annees |->
                PrixSimule(m.prix_initial, m.drift, m.volatility, chocs[i], c - 1)]]

\* generator state after the draws of one call
RngApres(m, depart) ==
    (depart + m.nb_simulations * (m.nombre_annees - 1)) % LongueurBande

\* prix_simules[:, 0] = self.prix_initial fails on a matrix without column
GenererEchoue(m) == m.nombre_annees = 0

\* onces_totales of one trajectory after its first k purchases
RECURSIVE McOncesTotales(_, _, _)
McOncesTotales(prix, investissement_annuel, k) ==
    IF k = 0 THEN Zero
    ELSE Add(McOncesTotales(prix, investissement_annuel, k - 1),
             Div(investissement_annuel, prix[k]))

\* variant: the fee rate left out of the product
McFraisSansTaux(onces_totales, frais_par_once, nombre_annees) ==
    Mul(onces_totales, R(nombre_annees))

\* frais_totaux = onces_totales * self.frais_par_once * self.nombre_annees
McFraisTotaux(onces_totales, frais_par_once, nombre_annees) ==
    Mul(Mul(onces_totales, frais_par_once), R(nombre_annees))

\* rendement_final = (profit_final / resultats['investissement_total']) * 100
McRendementFinal(profit_final, investissement_total) ==
    Mul(Div(profit_final, investissement_total), Hundred)

\* the body of the loop over the trajectories, for the price row prix
SimulerTrajectoire(prix, m, investissement_total) ==
    LET onces_totales == McOncesTotales(prix, m.investissement_annuel, m.nombre_annees)
        prix_final == prix[Len(prix)]
        valeur_brute == Mul(onces_totales, prix_final)
        frais_totaux == McFraisTotaux(onces_totales, m.frais_par_once, m.nombre_annees)
        valeur_finale == Sub(valeur_brute, frais_totaux)
        profit_final == Sub(valeur_finale, investissement_total)
        rendement_final == McRendementFinal(profit_final, investissement_total)
    IN  [onces_totales |-> onces_totales, prix_final |-> prix_final,
         valeur_brute |-> valeur_brute, frais_totaux |-> frais_totaux,
         valeur_finale |-> valeur_finale, profit_final |-> profit_final,
         rendement_final |-> rendement_final]

\* a price row on which the accumulation divides by a price <= 0
LigneFautive(prix) == \E k \in 1..Len(prix) : Le(prix[k], Zero)

ScalairesInitiaux ==
    [onces_totales |-> Zero, prix_final |-> Zero, valeur_brute |-> Zero,
     frais_totaux |-> Zero, valeur_finale |-> Zero, profit_final |-> Zero,
     rendement_final |-> Zero]

\* variant: the loop is left at the first row that meets a price <= 0, the
\* entries of that row and of the rows after it keep the zeros of np.zeros
BoucleInterrompue(matrice, m, investissement_total) ==
    [sim \in 1..Len(matrice) |->
        IF \E avant \in 1..sim : LigneFautive(matrice[avant])
        THEN ScalairesInitiaux
        ELSE SimulerTrajectoire(matrice[sim], m, investissement_total)]

\* for sim in range(self.nb_simulations): every row is accumulated, whatever
\* the other rows hold (a division by a price <= 0 raises nothing)
BoucleTrajectoires(matrice, m, investissement_total) ==
    [sim \in 1..Len(matrice) |->
        SimulerTrajectoire(matrice[sim], m, investissement_total)]

\* the values of an array, sorted (np.sort on an array without nan)
Trie(v) == SortSeq(v, LAMBDA a, b : Lt(a, b))

ContientNaN(v) == \E k \in 1..Len(v) : IsNaN(v[k])

RECURSIVE Somme(_, _)
Somme(v, k) == IF k = 0 THEN Zero ELSE Add(Somme(v, k - 1), v[k])

\* np.mean: nan for an empty array
MoyenneTableau(v) == Div(Somme(v, Len(v)), R(Len(v)))

\* np.min, np.max of a non-empty array: nan as soon as one entry is nan
MinTableau(v) == IF ContientNaN(v) THEN NaN ELSE Trie(v)[1]
MaxTableau(v) == IF ContientNaN(v) THEN NaN ELSE Trie(v)[Len(v)]

\* np.percentile(v, q), default method: linear interpolation at the virtual
\* index q/100 * (n - 1) of the sorted array; nan as soon as one entry is nan
Percentile(v, q) ==
    IF Len(v) = 0 \/ ContientNaN(v) THEN NaN
    ELSE LET t == Trie(v)
             n == Len(v)
             bas == (q * (n - 1)) \div 100
             haut == IF bas + 1 <= n - 1 THEN bas + 1 ELSE n - 1
             gamma == Norm((q * (n - 1)) % 100, 100)
         IN  Add(t[bas + 1], Mul(Sub(t[haut + 1], t[bas + 1]), gamma))

\* variant: the lower of the two middle values for an even length
MedianeBasse(v) ==
    IF Len(v) = 0 \/ ContientNaN(v) THEN NaN
    ELSE Trie(v)[((Len(v) - 1) \div 2) + 1]

\* np.median: the middle value of the sorted array, the mean of the two
\* middle values for an even length; nan as soon as one entry is nan
Mediane(v) ==
    IF Len(v) = 0 \/ ContientNaN(v) THEN NaN
    ELSE LET t == Trie(v)
             n == Len(v)
         IN  IF n % 2 = 1 THEN t[((n - 1) \div 2) + 1]
             ELSE Div(Add(t[n \div 2], t[(n \div 2) + 1]), R(2))

\* np.mean(v > 0) * 100 and np.mean(v < 0) * 100
NbPositifs(v) == Cardinality({k \in 1..Len(v) : Gt(v[k], Zero)})
NbNegatifs(v) == Cardinality({k \in 1..Len(v) : Lt(v[k], Zero)})
PartPositifs(v) == Mul(Div(R(NbPositifs(v)), R(Len(v))), Hundred)
PartNegatifs(v) == Mul(Div(R(NbNegatifs(v)), R(Len(v))), Hundred)

\* the dictionary built by calculer_statistiques (rendement_std, an
\* irrational root in general, is not represented)
StatsDict(resultats) ==
    LET rendements == resultats.rendements_finaux
        valeurs == resultats.valeurs_finales
        profits == resultats.profits_finaux
    IN  [rendement_moyen |-> MoyenneTableau(rendements),
         rendement_median |-> Mediane(rendements),
         rendement_min |-> MinTableau(rendements),
         rendement_max |-> MaxTableau(rendements),
         rendement_p5 |-> Percentile(rendements, 5),
         rendement_p25 |-> Percentile(rendements, 25),
         rendement_p75 |-> Percentile(rendements, 75),
         rendement_p95 |-> Percentile(rendements, 95),
         valeur_moyenne |-> MoyenneTableau(valeurs),
         valeur_mediane |-> Mediane(valeurs),
         valeur_p5 |-> Percentile(valeurs, 5),
         valeur_p95 |-> Percentile(valeurs, 95),
         prob_profit |-> PartPositifs(profits),
         prob_perte |-> PartNegatifs(profits),
         prob_rendement_positif |-> PartPositifs(rendements),
         var_5pct |-> Percentile(profits, 5),
         var_1pct |-> Percentile(profits, 1)]

PasDeStatistiques == [etat |-> "idle", dict |-> [k \in {} |-> Zero]]

\* np.min(rendements) raises ValueError on an array of length 0
StatistiquesEchoue(resultats) == Len(resultats.rendements_finaux) = 0

\* calculer_statistiques(resultats) on the dictionary the run returned
CalculerStatistiques ==
    /\ mc_issue.etat = "returned"
    /\ statistiques' =
           IF StatistiquesEchoue(mc_resultats)
           THEN [etat |-> "ValueError", dict |-> [k \in {} |-> Zero]]
           ELSE [etat |-> "returned", dict |-> StatsDict(mc_resultats)]
    /\ UNCHANGED <<df, hybride, menu, varsHist, mc, mc_args, analyseur, mc_params, bande, rng, gen, mc_issue,
                   mc_resultats, mc_locaux, varsAnalyse>>

\* configure_simulation(..., period), its other arguments drawn from the
\* input sets of the model
McConfigure(period) ==
        /\ period_demandee' = period
        /\ mc_params' = GetMonteCarloParams(analyseur, period)
        /\ \E investissement_annuel \in MontantsMC, nombre_annees \in 0..MaxAnnees,
              prix_initial \in MontantsMC, frais_par_once \in MontantsMC,
              nb_simulations \in 0..MaxSims :
               /\ mc' = [investissement_annuel |-> investissement_annuel,
                         nombre_annees |-> nombre_annees,
                         prix_initial |-> prix_initial,
                         frais_par_once |-> frais_par_once,
                         nb_simulations |-> nb_simulations,
                         drift |-> mc_params'.drift,
                         volatility |-> mc_params'.volatility]
               /\ mc_args' = [investissement_annuel |-> investissement_annuel,
                              nombre_annees |-> nombre_annees,
                              prix_initial |-> prix_initial,
                              frais_par_once |-> frais_par_once,
                              nb_simulations |-> nb_simulations,
                              period |-> period]
        /\ gen' = GenPasAppele
        /\ mc_issue' = McPasAppele
        /\ mc_resultats' = McResultatsVides
        /\ mc_locaux' = <<>>
        /\ statistiques' = PasDeStatistiques
        /\ UNCHANGED <<df, hybride, menu, varsHist, analyseur, bande, rng, period_analysis>>

\* bookkeeping of one call of generer_trajectoires_prix; rng_avant is the
\* generator state a repeated call found on entry
GenApres(etat, matrice) ==
    [appels |-> IF gen.appels < 2 THEN gen.appels + 1 ELSE 2,
     etat |-> etat, rng_avant |-> IF gen.appels = 0 THEN 0 ELSE rng,
     derniere |-> matrice, precedente |-> gen.derniere]

\* a direct call of generer_trajectoires_prix
GenererTrajectoiresPrix ==
    /\ IF GenererEchoue(mc)
       THEN /\ gen' = GenApres("IndexError", <<>>)
            /\ rng' = rng
       ELSE /\ gen' = GenApres("returned", PrixSimules(mc, bande, DepartTirage(rng)))
            /\ rng' = RngApres(mc, DepartTirage(rng))
    /\ UNCHANGED <<df, hybride, menu, varsHist, mc, mc_args, analyseur, mc_params, bande, mc_issue, mc_resultats,
                   mc_locaux, varsAnalyse, statistiques>>

\* variant: the contribution of one period only
McInvestissementUnePeriode(m) == m.investissement_annuel

\* 'investissement_total': self.investissement_annuel * self.nombre_annees
McInvestissementTotal(m) == Mul(m.investissement_annuel, R(m.nombre_annees))

SimulerDcaMonteCarlo ==
    /\ IF GenererEchoue(mc)
       THEN /\ gen' = GenApres("IndexError", <<>>)
            /\ rng' = rng
            /\ mc_issue' = [etat |-> "IndexError"]
            /\ mc_resultats' = McResultatsVides
            /\ mc_locaux' = <<>>
       ELSE LET investissement_total == McInvestissementTotal(mc)
            IN  /\ gen' = GenApres("returned", PrixSimules(mc, bande, DepartTirage(rng)))
                /\ rng' = RngApres(mc, DepartTirage(rng))
                /\ mc_issue' = [etat |-> "returned"]
                /\ mc_locaux' = BoucleTrajectoires(gen'.derniere, mc, investissement_total)
                /\ mc_resultats' =
                       [valeurs_finales |->
                            [sim \in 1..mc.nb_simulations |-> mc_locaux'[sim].valeur_finale],
                        rendements_finaux |->
                            [sim \in 1..mc.nb_simulations |-> mc_locaux'[sim].rendement_final],
                        onces_finales |->
                            [sim \in 1..mc.nb_simulations |-> mc_locaux'[sim].onces_totales],
                        investissement_total |-> investissement_total,
                        prix_trajectoires |-> gen'.derniere,
                        profits_finaux |->
                            [sim \in 1..mc.nb_simulations |-> mc_locaux'[sim].profit_final]]
    /\ UNCHANGED <<df, hybride, menu, varsHist, mc, mc_args, analyseur, mc_params, bande, varsAnalyse, statistiques>>

\* the dictionary simuler_dca_monte_carlo returns on an object with the
\* fields m (the generator is reseeded, its state on entry does not matter)
McResultatsDe(m) ==
    LET matrice == PrixSimules(m, bande, Graine42)
        total == McInvestissementTotal(m)
        locaux == BoucleTrajectoires(matrice, m, total)
    IN  [valeurs_finales |-> [sim \in 1..m.nb_simulations |-> locaux[sim].valeur_finale],
         rendements_finaux |-> [sim \in 1..m.nb_simulations |-> locaux[sim].rendement_final],
         onces_finales |-> [sim \in 1..m.nb_simulations |-> locaux[sim].onces_totales],
         investissement_total |-> total,
         prix_trajectoires |-> matrice,
         profits_finaux |-> [sim \in 1..m.nb_simulations |-> locaux[sim].profit_final]]

\* another user of the process-wide generator draws from it (the
\* np.random.choice of creer_graphiques_monte_carlo)
AutreTirage ==
    /\ rng' = (rng + 1) % LongueurBande
    /\ UNCHANGED <<df, hybride, menu, varsHist, mc, mc_args, analyseur, mc_params, bande, gen, mc_issue, mc_resultats,
                   mc_locaux, varsAnalyse, statistiques>>

----------------------------------------------------------------------------
(* HybridDCASimulator                                                      *)

\* the year whose price starts the projections (2024 in the program, the
\* last year of the series of the model)
AnneeActuelle == 2003

\* annee_debut_historique = None
SansAnneeDebut == 0

PasDeSimulationComplete ==
    [etat |-> "idle", annee_debut_historique |-> SansAnneeDebut,
     erreur_signalee |-> FALSE, partie_mc |-> "non_executee",
     historique |-> "None", monte_carlo |-> "None"]

\* how part 1 of simulation_complete ends, fin being the outcome of
\* simuler_dca and nb_periodes the length of the lists it returned:
\* "sautee" without start year, "remplie" when
\* resultats['historique'] is filled, "ValueError" when the except clause
\* caught the error, else the exception that leaves the method (KeyError of
\* simuler_dca, IndexError of afficher_resultats on empty lists)
PartieHistorique(annee_debut_historique, fin, nb_periodes) ==
    IF annee_debut_historique = SansAnneeDebut THEN "sautee"
    ELSE IF fin.etat # "returned" THEN fin.etat
    ELSE IF nb_periodes = 0 THEN "IndexError"
    ELSE "remplie"

\* how part 2 ends: "remplie" when resultats['monte_carlo'] is filled,
\* "non_executee" when part 1 left the method, else the exception raised
\* (KeyError of df_prix.loc, IndexError of generer_trajectoires_prix,
\* ValueError of calculer_statistiques)
PartieMonteCarlo(partie1, rendements, nombre_annees, nb_simulations_mc) ==
    IF partie1 \in {"KeyError", "IndexError"} THEN "non_executee"
    ELSE IF AnneeActuelle \notin DOMAIN rendements THEN "KeyError"
    ELSE IF nombre_annees = 0 THEN "IndexError"
    ELSE IF nb_simulations_mc = 0 THEN "ValueError"
    ELSE "remplie"

\* how the call ends: "returned" or the exception that leaves the method
IssueSimulationComplete(partie1, partie2) ==
    IF partie1 \in {"KeyError", "IndexError"} THEN partie1
    ELSE IF partie2 # "remplie" THEN partie2
    ELSE "returned"

\* simulation_complete(investissement_annuel, nombre_annees,
\* annee_debut_historique, frais_par_once, nb_simulations_mc)
SimulationComplete(investissement_annuel, nombre_annees, annee_debut_historique, frais_par_once, nb_simulations_mc) ==
    /\ IF annee_debut_historique = SansAnneeDebut
       THEN UNCHANGED varsHist
       ELSE /\ hist' = [investissement_annuel |-> investissement_annuel,
                        nombre_annees |-> nombre_annees,
                        annee_debut |-> annee_debut_historique,
                        frais_par_once |-> frais_par_once]
            /\ hist_args' = hist'
            /\ hist_issue' = IssueSimulerDca(hist', df).issue
            /\ hist_resultats' = IssueSimulerDca(hist', df).resultats
    /\ LET partie1 == PartieHistorique(annee_debut_historique, hist_issue',
                                       Len(hist_resultats'.annees))
           partie2 == PartieMonteCarlo(partie1, analyseur, nombre_annees, nb_simulations_mc)
       IN  hybride' = [etat |-> IssueSimulationComplete(partie1, partie2),
                       annee_debut_historique |-> annee_debut_historique,
                       erreur_signalee |-> (partie1 = "ValueError"),
                       partie_mc |-> partie2,
                       historique |-> IF partie1 = "remplie" /\ partie2 = "remplie"
                                      THEN "rempli" ELSE "None",
                       monte_carlo |-> IF partie2 = "remplie" THEN "rempli" ELSE "None"]
    /\ IF hybride'.partie_mc \in {"non_executee", "KeyError"}
       THEN UNCHANGED <<mc, mc_args, mc_params, period_demandee, rng, gen, mc_issue,
                        mc_resultats, mc_locaux, statistiques>>
       ELSE /\ mc_params' = GetMonteCarloParams(analyseur, "Modern_Era")
            /\ period_demandee' = "Modern_Era"
            /\ mc' = [investissement_annuel |-> investissement_annuel,
                      nombre_annees |-> nombre_annees,
                      prix_initial |-> df[AnneeActuelle],
                      frais_par_once |-> frais_par_once,
                      nb_simulations |-> nb_simulations_mc,
                      drift |-> mc_params'.drift, volatility |-> mc_params'.volatility]
            /\ mc_args' = [investissement_annuel |-> investissement_annuel,
                           nombre_annees |-> nombre_annees,
                           prix_initial |-> df[AnneeActuelle],
                           frais_par_once |-> frais_par_once,
                           nb_simulations |-> nb_simulations_mc,
                           period |-> "Modern_Era"]
            /\ IF GenererEchoue(mc')
               THEN /\ gen' = [GenPasAppele EXCEPT !.appels = 1, !.etat = "IndexError"]
                    /\ rng' = rng
                    /\ mc_issue' = [etat |-> "IndexError"]
                    /\ mc_resultats' = McResultatsVides
                    /\ mc_locaux' = <<>>
                    /\ statistiques' = PasDeStatistiques
               ELSE /\ mc_resultats' = McResultatsDe(mc')
                    /\ gen' = [GenPasAppele EXCEPT !.appels = 1, !.etat = "returned",
                                                   !.derniere =
                                                       mc_resultats'.prix_trajectoires]
                    /\ rng' = RngApres(mc', Graine42)
                    /\ mc_issue' = [etat |-> "returned"]
                    /\ mc_locaux' = BoucleTrajectoires(gen'.derniere, mc',
                                                       McInvestissementTotal(mc'))
                    /\ statistiques' =
                           IF StatistiquesEchoue(mc_resultats')
                           THEN [etat |-> "ValueError", dict |-> [k \in {} |-> Zero]]
                           ELSE [etat |-> "returned", dict |-> StatsDict(mc_resultats')]
    /\ UNCHANGED <<df, analyseur, bande, period_analysis, menu>>

----------------------------------------------------------------------------
(* simulation_interactive.py: menu_principal and the functions it calls.   *)
(* Each function builds its own simulator objects; of the state of the     *)
(* process it changes the generator only.  The o/n prompts that open       *)
(* matplotlib windows are answered with their default, except in           *)
(* analyse_volatilite whose default is to plot.                            *)

\* menu_principal entered: the menu is displayed and a choice awaited
MenuAffiche == [position |-> "choix", choix |-> "aucun", issue |-> "retour",
                etape |-> "aucune"]

\* what the user types at a prompt
SaisiesReelles == {"", "abc", "1"}
SaisiesAnnees == {"", "abc", "0", "3"}
SaisiesDebut == {"", "0", "2001"}
SaisiesSimulations == {"", "0", "1"}
SaisiesChoixInvalides == {"", "0", "8", "abc"}
SaisiesGraphiques == {"", "n"}

\* the strings float() and int() accept, with their value
ValeurSaisie == [t \in {"0", "1", "3", "2001"} |->
                    IF t = "0" THEN 0 ELSE IF t = "1" THEN 1
                    ELSE IF t = "3" THEN 3 ELSE 2001]

\* int(texte) if texte else defaut: ValueError on a string that is no number
ParseInt(texte, defaut) ==
    IF texte = "" THEN [ok |-> TRUE, valeur |-> defaut]
    ELSE IF texte \in DOMAIN ValeurSaisie THEN [ok |-> TRUE, valeur |-> ValeurSaisie[texte]]
    ELSE [ok |-> FALSE, valeur |-> defaut]

\* float(texte) if texte else defaut
ParseFloat(texte, defaut) ==
    IF texte = "" THEN [ok |-> TRUE, valeur |-> defaut]
    ELSE IF texte \in DOMAIN ValeurSaisie
         THEN [ok |-> TRUE, valeur |-> R(ValeurSaisie[texte])]
    ELSE [ok |-> FALSE, valeur |-> defaut]

\* defaults of the prompts, scaled to the model
DefautsPersonnalisee ==
    [investissement_annuel |-> One, nombre_annees |-> 2, annee_debut |-> 2002,
     frais_par_once |-> One]
DefautsMonteCarlo ==
    [investissement_annuel |-> One, nombre_annees |-> 2, prix_initial |-> One,
     frais_par_once |-> One, nb_simulations |-> 2]
DefautsHybride ==
    [investissement_annuel |-> One, nombre_annees |-> 2, annee_debut |-> 2002,
     frais_par_once |-> One, nb_simulations |-> 2]

\* the predefined examples of exemples_predefinies, scaled to the model
Exemples ==
    <<[investissement_annuel |-> One, nombre_annees |-> 2, annee_debut |-> 2001,
       frais_par_once |-> One],
      [investissement_annuel |-> One, nombre_annees |-> 2, annee_debut |-> 2002,
       frais_par_once |-> One]>>

\* the loop goes on after a handler that returned; an exception leaves
\* menu_principal, which has no try
ApresChoix(choix, issue, etape) ==
    [position |-> IF issue = "retour" THEN "choix" ELSE "exception",
     choix |-> choix, issue |-> issue, etape |-> etape]

\* simuler_dca followed by afficher_resultats on a fresh GoldDCASimulator:
\* the exception raised, "none" when both return
IssueSimulerEtAfficher(h) ==
    IF FinSimulerDca(h, df).etat # "returned" THEN FinSimulerDca(h, df).etat
    ELSE IF NombrePeriodes(h) = 0 THEN "IndexError"
    ELSE "none"

\* choice "1": simulation_personnalisee.  The four conversions are made
\* before the try; the try catches ValueError only.
ChoixPersonnalisee(investissement_str, annees_str, debut_str, frais_str) ==
    LET inv == ParseFloat(investissement_str, DefautsPersonnalisee.investissement_annuel)
        n == ParseInt(annees_str, DefautsPersonnalisee.nombre_annees)
        debut == ParseInt(debut_str, DefautsPersonnalisee.annee_debut)
        frais == ParseFloat(frais_str, DefautsPersonnalisee.frais_par_once)
        e == IssueSimulerEtAfficher([investissement_annuel |-> inv.valeur,
                                     nombre_annees |-> n.valeur,
                                     annee_debut |-> debut.valeur,
                                     frais_par_once |-> frais.valeur])
    IN  /\ menu.position = "choix"
        /\ menu' = IF ~(inv.ok /\ n.ok /\ debut.ok /\ frais.ok)
                   THEN ApresChoix("1", "ValueError", "saisie")
                   ELSE IF e = "ValueError" THEN ApresChoix("1", "retour", "erreur affichee")
                   ELSE IF e = "none" THEN ApresChoix("1", "retour", "resultats")
                   ELSE ApresChoix("1", e, "simulation")
        /\ UNCHANGED <<df, varsHist, varsMC, hybride>>

RECURSIVE PremierEchec(_, _)
PremierEchec(exemples, k) ==
    IF k > Len(exemples) THEN "none"
    ELSE IF IssueSimulerEtAfficher(exemples[k]) # "none"
         THEN IssueSimulerEtAfficher(exemples[k])
    ELSE PremierEchec(exemples, k + 1)

\* choice "2": exemples_predefinies, without try
ChoixExemples ==
    /\ menu.position = "choix"
    /\ menu' = IF PremierEchec(Exemples, 1) = "none"
               THEN ApresChoix("2", "retour", "resultats")
               ELSE ApresChoix("2", PremierEchec(Exemples, 1), "simulation")
    /\ UNCHANGED <<df, varsHist, varsMC, hybride>>

\* choice "3": analyser_periodes; every period has a positive length and its
\* try catches ValueError and KeyError
ChoixPeriodes ==
    /\ menu.position = "choix"
    /\ menu' = ApresChoix("3", "retour", "resultats")
    /\ UNCHANGED <<df, varsHist, varsMC, hybride>>

\* choice "4": simulation_monte_carlo, without try
ChoixMonteCarlo(investissement_str, annees_str, prix_str, frais_str, simulations_str) ==
    LET inv == ParseFloat(investissement_str, DefautsMonteCarlo.investissement_annuel)
        n == ParseInt(annees_str, DefautsMonteCarlo.nombre_annees)
        prix == ParseFloat(prix_str, DefautsMonteCarlo.prix_initial)
        frais == ParseFloat(frais_str, DefautsMonteCarlo.frais_par_once)
        nb == ParseInt(simulations_str, DefautsMonteCarlo.nb_simulations)
        saisie_ok == inv.ok /\ n.ok /\ prix.ok /\ frais.ok /\ nb.ok
    IN  /\ menu.position = "choix"
        /\ menu' = IF ~saisie_ok THEN ApresChoix("4", "ValueError", "saisie")
                   ELSE IF n.valeur = 0 THEN ApresChoix("4", "IndexError", "simulation")
                   ELSE IF nb.valeur = 0 THEN ApresChoix("4", "ValueError", "statistiques")
                   ELSE ApresChoix("4", "retour", "resultats")
        /\ rng' = IF saisie_ok /\ n.valeur # 0
                  THEN RngApres([nb_simulations |-> nb.valeur, nombre_annees |-> n.valeur], Graine42)
                  ELSE rng
        /\ UNCHANGED <<df, varsHist, mc, mc_args, analyseur, mc_params, bande, gen, mc_issue,
                       mc_resultats, mc_locaux, varsAnalyse, statistiques, hybride>>

\* choice "5": simulation_hybride, without try
ChoixHybride(investissement_str, annees_str, debut_str, frais_str, simulations_str) ==
    LET inv == ParseFloat(investissement_str, DefautsHybride.investissement_annuel)
        n == ParseInt(annees_str, DefautsHybride.nombre_annees)
        debut == ParseInt(debut_str, DefautsHybride.annee_debut)
        frais == ParseFloat(frais_str, DefautsHybride.frais_par_once)
        nb == ParseInt(simulations_str, DefautsHybride.nb_simulations)
        saisie_ok == inv.ok /\ n.ok /\ debut.ok /\ frais.ok /\ nb.ok
        h == [investissement_annuel |-> inv.valeur, nombre_annees |-> n.valeur,
              annee_debut |-> debut.valeur, frais_par_once |-> frais.valeur]
        partie1 == PartieHistorique(debut.valeur, FinSimulerDca(h, df), NombrePeriodes(h))
        partie2 == PartieMonteCarlo(partie1, analyseur, n.valeur, nb.valeur)
        e == IssueSimulationComplete(partie1, partie2)
    IN  /\ menu.position = "choix"
        /\ menu' = IF ~saisie_ok THEN ApresChoix("5", "ValueError", "saisie")
                   ELSE IF e = "returned" THEN ApresChoix("5", "retour", "resultats")
                   ELSE IF partie2 = "non_executee" THEN ApresChoix("5", e, "simulation")
                   ELSE ApresChoix("5", e, "monte carlo")
        /\ rng' = IF saisie_ok /\ partie2 \in {"ValueError", "remplie"}
                  THEN RngApres([nb_simulations |-> nb.valeur, nombre_annees |-> n.valeur], Graine42)
                  ELSE rng
        /\ UNCHANGED <<df, varsHist, mc, mc_args, analyseur, mc_params, bande, gen, mc_issue,
                       mc_resultats, mc_locaux, varsAnalyse, statistiques, hybride>>

\* plot_historical_analysis plots self.df.index[1:] against
\* self.df['Returns'].dropna(): the lengths of the two arguments
LongueurAbscisses(rendements) ==
    IF Cardinality(DOMAIN rendements) = 0 THEN 0 ELSE Cardinality(DOMAIN rendements) - 1
LongueurOrdonnees(rendements) == Cardinality(DOMAIN rendements)

\* choice "6": analyse_volatilite; the plot is drawn unless the answer is
\* not one of o, oui, y, yes or empty, and Axes.plot raises ValueError on
\* arguments of different lengths
ChoixVolatilite(voir_graphiques) ==
    /\ menu.position = "choix"
    /\ menu' = IF voir_graphiques \in {"o", "oui", "y", "yes", ""}
                  /\ LongueurAbscisses(analyseur) # LongueurOrdonnees(analyseur)
               THEN ApresChoix("6", "ValueError", "graphiques")
               ELSE ApresChoix("6", "retour", "resultats")
    /\ UNCHANGED <<df, varsHist, varsMC, hybride>>

\* choice "7": break
ChoixQuitter ==
    /\ menu.position = "choix"
    /\ menu' = [position |-> "returned", choix |-> "7", issue |-> "retour",
                etape |-> "aucune"]
    /\ UNCHANGED <<df, varsHist, varsMC, hybride>>

\* any other string: "Choix invalide", and the loop goes on
ChoixInvalide(choix) ==
    /\ menu.position = "choix"
    /\ choix \notin {"1", "2", "3", "4", "5", "6", "7"}
    /\ menu' = ApresChoix(choix, "retour", "choix invalide")
    /\ UNCHANGED <<df, varsHist, varsMC, hybride>>

----------------------------------------------------------------------------
(* Specifications                                                          *)

InitSur(fichiers) ==
    /\ df \in fichiers
    /\ hist = HistDefaults
    /\ hist_args = PasDArguments
    /\ hist_issue = PasAppele
    /\ hist_resultats = ResultatsVides
    /\ mc = McDefaults
    /\ mc_args = PasDArguments
    /\ analyseur = Returns(df)
    /\ mc_params = [drift |-> McDefaults.drift, volatility |-> McDefaults.volatility,
                    period_used |-> "none"]
    /\ bande \in Bandes
    /\ rng \in 0..(LongueurBande - 1)
    /\ gen = GenPasAppele
    /\ mc_issue = McPasAppele
    /\ mc_resultats = McResultatsVides
    /\ mc_locaux = <<>>
    /\ period_demandee = "none"
    /\ period_analysis = PasDAnalyse
    /\ statistiques = PasDeStatistiques
    /\ hybride = PasDeSimulationComplete
    /\ menu = MenuAffiche

Init == InitSur(DataFiles)

\* a GoldVolatilityAnalysis used on its own
InitAnalyse == InitSur(DataFilesAnalyse)

NextHist ==
    \/ \E ia \in Montants, n \in NombresAnnees, ad \in Annees, f \in Montants :
           HistConfigure(ia, n, ad, f)
    \/ SimulerDca

NextMC ==
    \/ \E period \in NomsPeriodes : McConfigure(period)
    \/ GenererTrajectoiresPrix
    \/ SimulerDcaMonteCarlo
    \/ AutreTirage

\* the Monte Carlo pipeline: configure, simulate, reduce
NextStats ==
    \/ \E period \in NomsPeriodes : McConfigure(period)
    \/ SimulerDcaMonteCarlo
    \/ CalculerStatistiques

NextAnalyse ==
    \/ AnalyzePeriodsAppel
    \/ \E period \in NomsDemandes : GetMonteCarloParamsAppel(period)

\* arguments of the two-object scenario: a reduced set per object
HistArgsReduits(a) ==
    /\ a.investissement_annuel = One
    /\ a.nombre_annees \in {1, MaxAnnees}
    /\ a.annee_debut \in {2000, 2001}
    /\ a.frais_par_once \in {Zero, One}

McArgsReduits(a) ==
    /\ a.investissement_annuel = One
    /\ a.nombre_annees \in {1, 2}
    /\ a.prix_initial = One
    /\ a.nb_simulations \in {1, MaxSims}

\* one GoldDCASimulator and one MonteCarloGoldDCA of the same process,
\* reconfigured and run in any order
NextReconf ==
    \/ \E ia \in Montants, n \in NombresAnnees, ad \in Annees, f \in Montants :
           HistConfigure(ia, n, ad, f) /\ HistArgsReduits(hist_args')
    \/ SimulerDca
    \/ \E period \in NomsPeriodes : McConfigure(period) /\ McArgsReduits(mc_args')
    \/ SimulerDcaMonteCarlo
    \/ AutreTirage

SpecHist == Init /\ [][NextHist]_vars

SpecReconf == Init /\ [][NextReconf]_vars

\* start years given to simulation_complete: none, or one of two years
AnneesDebutHistorique == {SansAnneeDebut, 2000, 2001}

\* a HybridDCASimulator on which simulation_complete is called repeatedly
NextHybride ==
    \E n \in 0..MaxAnnees, ad \in AnneesDebutHistorique, nb \in 0..MaxSims :
        SimulationComplete(One, n, ad, One, nb)

SpecHybride == Init /\ [][NextHybride]_vars

\* one session of menu_principal
NextMenu ==
    \/ \E a \in SaisiesReelles, b \in SaisiesAnnees, c \in SaisiesDebut,
          d \in SaisiesReelles : ChoixPersonnalisee(a, b, c, d)
    \/ ChoixExemples
    \/ ChoixPeriodes
    \/ \E a \in SaisiesReelles, b \in SaisiesAnnees, c \in SaisiesReelles,
          d \in SaisiesReelles, e \in SaisiesSimulations : ChoixMonteCarlo(a, b, c, d, e)
    \/ \E a \in SaisiesReelles, b \in SaisiesAnnees, c \in SaisiesDebut,
          d \in SaisiesReelles, e \in SaisiesSimulations : ChoixHybride(a, b, c, d, e)
    \/ \E v \in SaisiesGraphiques : ChoixVolatilite(v)
    \/ ChoixQuitter
    \/ \E c \in SaisiesChoixInvalides : ChoixInvalide(c)

SpecMenu == Init /\ [][NextMenu]_vars

SpecMC == Init /\ [][NextMC]_vars

SpecStats == Init /\ [][NextStats]_vars

SpecAnalyse == InitAnalyse /\ [][NextAnalyse]_vars

----------------------------------------------------------------------------
(* Properties of GoldDCASimulator (checked under SpecHist)                 *)

HistAnneeFin == hist.annee_debut + hist.nombre_annees - 1
HistAppele == hist_issue.etat # "idle"
HistRetourne == hist_issue.etat = "returned"
HistLongueur == Len(hist_resultats.annees)

\* C1: whenever any year of [annee_debut, annee_debut+nombre_annees-1] is
\* absent from the series, simuler_dca fails with a ValueError that names a
\* missing year of the range.
C1_PlageIndisponible ==
    (HistAppele /\ AnneesAbsentes(df, hist.annee_debut, HistAnneeFin) # {})
        => /\ hist_issue.etat = "ValueError"
           /\ hist_issue.annee \in AnneesAbsentes(df, hist.annee_debut, HistAnneeFin)

\* C3: a historical run configured with investissement_annuel <= 0,
\* frais_par_once < 0 or nombre_annees < 1 is rejected: simuler_dca does not
\* return a result for it (and so never a result with empty lists).
HistConfigValide ==
    /\ Gt(hist.investissement_annuel, Zero)
    /\ Ge(hist.frais_par_once, Zero)
    /\ hist.nombre_annees >= 1

C3_ConfigInvalideRejetee ==
    (HistAppele /\ ~HistConfigValide) => ~HistRetourne

\* C4: in every per-period record, the cumulative fee at 0-based index i is
\* (total units held after the purchase of period i) x frais_par_once x (i+1).
C4_FraisSurDetentionCourante ==
    HistRetourne =>
        \A k \in 1..HistLongueur :
            hist_resultats.frais_totaux[k] =
                Mul(Mul(hist_resultats.onces_totales[k], hist.frais_par_once), R(k))

\* the fee integral the claim rules out: sum over the past periods of the
\* holdings of those periods
RECURSIVE SommeSeq(_, _)
SommeSeq(s, k) == IF k = 0 THEN Zero ELSE Add(SommeSeq(s, k - 1), s[k])

FraisIntegrale(k) == Mul(SommeSeq(hist_resultats.onces_totales, k), hist.frais_par_once)

\* a returned run of two periods or more with a positive fee where the
\* recorded fee differs from the fee integral
C4_Temoin ==
    /\ HistRetourne
    /\ HistLongueur >= 2
    /\ Gt(hist.frais_par_once, Zero)
    /\ Gt(hist.investissement_annuel, Zero)
    /\ hist_resultats.frais_totaux[2] # FraisIntegrale(2)
    /\ hist_resultats.frais_totaux[1] # hist_resultats.frais_totaux[2]

\* C7: onces_totales is non-decreasing in the period index, strictly
\* increasing when the contribution and all prices are strictly positive,
\* and at each period equals the sum of onces_achetees_annee so far.
PrixTousPositifs(prix) == \A k \in 1..Len(prix) : Gt(prix[k], Zero)

C7_OncesCroissantes ==
    HistRetourne =>
        /\ \A k \in 2..HistLongueur :
               Le(hist_resultats.onces_totales[k - 1], hist_resultats.onces_totales[k])
        /\ (Gt(hist.investissement_annuel, Zero) /\ PrixTousPositifs(hist_resultats.prix_or))
               => \A k \in 2..HistLongueur :
                      Lt(hist_resultats.onces_totales[k - 1], hist_resultats.onces_totales[k])
        /\ \A k \in 1..HistLongueur :
               hist_resultats.onces_totales[k] =
                   SommeSeq(hist_resultats.onces_achetees_annee, k)

\* C8: the return percent recorded for a period is exactly 0 whenever the
\* cumulative contribution of that period is 0 (no inf or nan from a
\* division by zero).
C8_RendementNulSansApport ==
    HistRetourne =>
        \A k \in 1..HistLongueur :
            hist_resultats.investissement_cumule[k] = Zero
                => hist_resultats.rendement_pourcent[k] = Zero

\* a returned run with contribution 0: the guard is exercised
C8_Temoin ==
    /\ HistRetourne
    /\ HistLongueur >= 2
    /\ hist.investissement_annuel = Zero
    /\ hist_resultats.investissement_cumule[2] = Zero
    /\ hist_resultats.rendement_pourcent[2] = Zero

\* the per-period formulas of the claim C13 at 1-based index k of the lists
\* res, for the contribution investissement_annuel
FormulesPeriode(res, investissement_annuel, k) ==
    /\ res.onces_achetees_annee[k] = Div(investissement_annuel, res.prix_or[k])
    /\ res.investissement_cumule[k] = Mul(investissement_annuel, R(k))
    /\ res.valeur_portefeuille[k] =
           Sub(Mul(res.onces_totales[k], res.prix_or[k]), res.frais_totaux[k])
    /\ res.profit_perte[k] = Sub(res.valeur_portefeuille[k], res.investissement_cumule[k])
    /\ res.rendement_pourcent[k] =
           Mul(Hundred, Div(res.profit_perte[k], res.investissement_cumule[k]))

\* the run of the series {2010: 1000, 2011: 1500} with contribution 1000
\* and fee 0 over 2 periods
ScenarioC13 == BoucleDCA(<<R(1000), R(1500)>>, 2010, R(1000), Zero)

\* C13: at every period i of a historical run with all prices positive,
\* units bought = contribution / price_i, cumulative contribution =
\* contribution x (i+1), net value = total units x price_i - cumulative fees,
\* profit = net value - cumulative contribution and return percent =
\* 100 x profit / cumulative contribution; the series {2010: 1000, 2011: 1500}
\* with contribution 1000 and fee 0 yields units 1 then 2/3, total units 5/3,
\* value 2500, cumulative contribution 2000, profit 500 and return 25.
C13_FormulesParPeriode ==
    /\ (HistRetourne /\ PrixTousPositifs(hist_resultats.prix_or)) =>
           \A k \in 1..HistLongueur :
               FormulesPeriode(hist_resultats, hist.investissement_annuel, k)
    /\ ScenarioC13.onces_achetees_annee = <<One, Norm(2, 3)>>
    /\ ScenarioC13.onces_totales[2] = Norm(5, 3)
    /\ ScenarioC13.valeur_portefeuille[2] = R(2500)
    /\ ScenarioC13.investissement_cumule[2] = R(2000)
    /\ ScenarioC13.profit_perte[2] = R(500)
    /\ ScenarioC13.rendement_pourcent[2] = R(25)

\* C29: every result returned by simuler_dca has its nine lists of the same
\* length nombre_annees, annees being annee_debut, annee_debut+1, ...,
\* annee_debut+nombre_annees-1 in this order and prix_or[i] the price of the
\* series for the year annees[i].
NeufListes ==
    {"annees", "prix_or", "investissement_cumule", "onces_achetees_annee",
     "onces_totales", "valeur_portefeuille", "frais_totaux", "profit_perte",
     "rendement_pourcent"}

ListesAlignees ==
    /\ \A k \in 1..HistLongueur :
           /\ hist_resultats.annees[k] = hist.annee_debut + k - 1
           /\ hist_resultats.annees[k] \in DOMAIN df
           /\ hist_resultats.prix_or[k] = df[hist_resultats.annees[k]]
    /\ \A cle \in NeufListes : Len(hist_resultats[cle]) = HistLongueur

C29_ListesDeLaPlage ==
    HistRetourne =>
        /\ ListesAlignees
        /\ HistLongueur = hist.nombre_annees

\* the same with the period count of the configuration not negative
C29_AvecNombrePositif ==
    (HistRetourne /\ hist.nombre_annees >= 0) =>
        /\ ListesAlignees
        /\ HistLongueur = hist.nombre_annees

----------------------------------------------------------------------------
(* Properties of MonteCarloGoldDCA (checked under SpecMC)                  *)

McAppele == mc_issue.etat # "idle"
McRetourne == mc_issue.etat = "returned"
StatsRetourne == statistiques.etat = "returned"

McConfigValide ==
    /\ Gt(mc.investissement_annuel, Zero)
    /\ Gt(mc.prix_initial, Zero)
    /\ mc.nombre_annees >= 1
    /\ Ge(mc.volatility, Zero)
    /\ mc.nb_simulations >= 1

\* C2: a Monte Carlo run with a non-positive contribution, a non-positive
\* initial price, nombre_annees < 1, a negative volatility or
\* nb_simulations < 1 is rejected before any trajectory is generated: no
\* matrix and no result dictionary is produced.
C2_ConfigInvalideRejetee ==
    (McAppele /\ ~McConfigValide) => (~McRetourne /\ gen.etat # "returned")

\* the last-period values of the historical accumulation loop run on the
\* price row prix with the contribution and the fee of the Monte Carlo run
DernierHistorique(prix) ==
    Periode(prix, mc.investissement_annuel, mc.frais_par_once, Len(prix) - 1)

\* C5: for every trajectory (of positive prices), the four final scalars
\* stored by simuler_dca_monte_carlo equal the last-period total units, net
\* value, profit and return percent of the historical accumulation loop run
\* on the same prices with the same contribution and fee.
C5_FinalesCommeHistorique ==
    McRetourne =>
        \A sim \in 1..Len(mc_resultats.prix_trajectoires) :
            LET h == DernierHistorique(mc_resultats.prix_trajectoires[sim])
            IN  PrixTousPositifs(mc_resultats.prix_trajectoires[sim]) =>
                /\ mc_resultats.onces_finales[sim] = h.onces_totales
                /\ mc_resultats.valeurs_finales[sim] = h.valeur_portefeuille_nette
                /\ mc_resultats.profits_finaux[sim] = h.profit_perte
                /\ mc_resultats.rendements_finaux[sim] = h.rendement_pourcent

\* C6: with frais_par_once = 0 and positive prices, the cumulative fee is 0
\* and the net value equals total units x current price, at every period of
\* the historical accumulation loop and in the final values of every
\* Monte Carlo trajectory.
C6_SansFraisNetEgalBrut ==
    (McRetourne /\ mc.frais_par_once = Zero) =>
        \A sim \in 1..Len(mc_resultats.prix_trajectoires) :
            LET prix == mc_resultats.prix_trajectoires[sim]
                h == BoucleDCA(prix, 0, mc.investissement_annuel, mc.frais_par_once)
            IN  PrixTousPositifs(prix) =>
                    /\ \A k \in 1..Len(prix) :
                           /\ h.frais_totaux[k] = Zero
                           /\ h.valeur_portefeuille[k] = Mul(h.onces_totales[k], h.prix_or[k])
                    /\ mc_locaux[sim].frais_totaux = Zero
                    /\ mc_resultats.valeurs_finales[sim] =
                           Mul(mc_resultats.onces_finales[sim], prix[Len(prix)])

\* a returned run without fee holding units bought at positive, moving prices
C6_Temoin ==
    /\ McRetourne
    /\ mc.frais_par_once = Zero
    /\ Gt(mc.investissement_annuel, Zero)
    /\ mc.nombre_annees >= 2
    /\ mc.nb_simulations >= 1
    /\ PrixTousPositifs(mc_resultats.prix_trajectoires[1])
    /\ mc_resultats.prix_trajectoires[1][2] # mc_resultats.prix_trajectoires[1][1]
    /\ Gt(mc_resultats.valeurs_finales[1], Zero)
    /\ mc_locaux[1].frais_totaux = Zero

\* C9: the final return percent of every trajectory (of positive prices) is
\* 0 whenever the total contribution investissement_annuel x nombre_annees
\* is 0.
C9_RendementNulSansApport ==
    (McRetourne /\ mc_resultats.investissement_total = Zero) =>
        \A sim \in 1..Len(mc_resultats.rendements_finaux) :
            PrixTousPositifs(mc_resultats.prix_trajectoires[sim]) =>
                mc_resultats.rendements_finaux[sim] = Zero

\* C10: two calls of generer_trajectoires_prix under the same configuration
\* return identical matrices, whatever was drawn from the process-wide
\* generator or simulated between the two calls.
C10_TrajectoiresReproductibles ==
    gen.appels = 2 => gen.derniere = gen.precedente

\* a second call has returned a matrix that depends on the shocks drawn; it
\* found the generator neither freshly seeded nor as the first call left it
C10_Temoin ==
    /\ gen.appels = 2
    /\ gen.etat = "returned"
    /\ gen.rng_avant # RngApres(mc, Graine42)
    /\ gen.rng_avant # Graine42
    /\ mc.nb_simulations >= 1
    /\ mc.nombre_annees >= 2
    /\ mc.volatility # Zero
    /\ Gt(mc.prix_initial, Zero)
    /\ Facteur(mc.drift, mc.volatility, bande[1]) # Facteur(mc.drift, mc.volatility, bande[2])
    /\ gen.derniere[1][2] # gen.derniere[1][1]

\* C11: with drift = 0 and volatility = 0, every price of every trajectory
\* returned by generer_trajectoires_prix equals prix_initial, whatever the
\* shocks drawn.
C11_TrajectoiresPlates ==
    (gen.etat = "returned" /\ mc.drift = Zero /\ mc.volatility = Zero) =>
        \A i \in 1..Len(gen.derniere) :
            \A c \in 1..Len(gen.derniere[i]) : gen.derniere[i][c] = mc.prix_initial

\* a flat matrix of two trajectories over three periods, returned although
\* the shocks drawn for it are non-zero and differ
C11_Temoin ==
    /\ gen.etat = "returned"
    /\ mc.drift = Zero
    /\ mc.volatility = Zero
    /\ mc.nb_simulations >= 2
    /\ mc.nombre_annees >= 3
    /\ Gt(mc.prix_initial, Zero)
    /\ \A k \in 1..LongueurBande : bande[k] # Zero
    /\ bande[1] # bande[2]
    /\ gen.derniere[2][3] = mc.prix_initial

\* C12: the price at period index 0 of every returned trajectory is
\* prix_initial; with nombre_annees = 1 the matrix has nb_simulations rows of
\* the single column prix_initial, no shock being applied.
C12_PrixInitialEnPeriodeZero ==
    gen.etat = "returned" =>
        /\ Len(gen.derniere) = mc.nb_simulations
        /\ \A i \in 1..Len(gen.derniere) : gen.derniere[i][1] = mc.prix_initial
        /\ mc.nombre_annees = 1 =>
               \A i \in 1..Len(gen.derniere) : gen.derniere[i] = <<mc.prix_initial>>

\* a one-period matrix of two trajectories returned under a drift and a
\* volatility that would move any later price
C12_Temoin ==
    /\ gen.etat = "returned"
    /\ mc.nombre_annees = 1
    /\ mc.nb_simulations >= 2
    /\ Gt(mc.prix_initial, Zero)
    /\ mc.volatility # Zero
    /\ Facteur(mc.drift, mc.volatility, bande[1]) # One
    /\ gen.derniere[2] = <<mc.prix_initial>>

\* C20: the accumulation over a price sequence fails as soon as it meets a
\* price <= 0: a run with a positive contribution that returned met only
\* positive prices and recorded a finite, non-negative number of units for
\* every trajectory.
C20_PrixNonPositifEchoue ==
    (McRetourne /\ Gt(mc.investissement_annuel, Zero)) =>
        \A sim \in 1..Len(mc_resultats.prix_trajectoires) :
            /\ PrixTousPositifs(mc_resultats.prix_trajectoires[sim])
            /\ IsFinite(mc_resultats.onces_finales[sim])
            /\ Ge(mc_resultats.onces_finales[sim], Zero)

\* C21: a trajectory whose accumulation meets a price <= 0 does not stop the
\* batch: the run returns, every trajectory has its four final scalars
\* accumulated from its own price row, and the scalars of every other
\* trajectory are those of the same batch with the faulty row replaced by a
\* valid one.
LigneValide(n) == [c \in 1..n |-> One]

RemplacerLigne(matrice, i, ligne) ==
    [sim \in 1..Len(matrice) |-> IF sim = i THEN ligne ELSE matrice[sim]]

QuatreScalaires(sim) ==
    <<mc_resultats.valeurs_finales[sim], mc_resultats.rendements_finaux[sim],
      mc_resultats.onces_finales[sim], mc_resultats.profits_finaux[sim]>>

QuatreScalairesDe(l) ==
    <<l.valeur_finale, l.rendement_final, l.onces_totales, l.profit_final>>

TrajectoiresFautives ==
    {sim \in 1..Len(gen.derniere) : LigneFautive(gen.derniere[sim])}

C21_LotNonInterrompu ==
    (McAppele /\ gen.etat = "returned" /\ TrajectoiresFautives # {}) =>
        /\ McRetourne
        /\ Len(mc_resultats.valeurs_finales) = mc.nb_simulations
        /\ \A sim \in 1..mc.nb_simulations :
               QuatreScalaires(sim) =
                   QuatreScalairesDe(SimulerTrajectoire(gen.derniere[sim], mc,
                                                        mc_resultats.investissement_total))
        /\ \A fautive \in TrajectoiresFautives :
               \A autre \in (1..mc.nb_simulations) \ {fautive} :
                   QuatreScalaires(autre) =
                       QuatreScalairesDe(
                           BoucleTrajectoires(
                               RemplacerLigne(gen.derniere, fautive,
                                              LigneValide(mc.nombre_annees)),
                               mc, mc_resultats.investissement_total)[autre])

\* a returned batch of two trajectories of two periods whose first
\* trajectory meets the price 0, the second one accumulated all the same
C21_Temoin ==
    /\ McRetourne
    /\ mc.nb_simulations = 2
    /\ mc.nombre_annees = 2
    /\ mc.investissement_annuel = One
    /\ 1 \in TrajectoiresFautives
    /\ mc_resultats.onces_finales[1] = PosInf
    /\ mc_resultats.onces_finales[2] # Zero

\* C24: the result of every simuler_dca_monte_carlo call holds four outcome
\* arrays of length nb_simulations, entry sim of each written by trajectory
\* sim and by no other, a price matrix of nb_simulations rows and
\* nombre_annees columns, and investissement_total =
\* investissement_annuel x nombre_annees.
C24_FormeDuResultat ==
    McRetourne =>
        /\ Len(mc_resultats.valeurs_finales) = mc.nb_simulations
        /\ Len(mc_resultats.rendements_finaux) = mc.nb_simulations
        /\ Len(mc_resultats.onces_finales) = mc.nb_simulations
        /\ Len(mc_resultats.profits_finaux) = mc.nb_simulations
        /\ DOMAIN mc_locaux = 1..mc.nb_simulations
        /\ \A sim \in 1..mc.nb_simulations :
               QuatreScalaires(sim) = QuatreScalairesDe(mc_locaux[sim])
        /\ Len(mc_resultats.prix_trajectoires) = mc.nb_simulations
        /\ \A sim \in 1..mc.nb_simulations :
               Len(mc_resultats.prix_trajectoires[sim]) = mc.nombre_annees
        /\ mc_resultats.investissement_total =
               Mul(mc.investissement_annuel, R(mc.nombre_annees))

\* a returned run of MaxSims trajectories over two periods whose first and
\* last trajectories ended on different values
C24_Temoin ==
    /\ McRetourne
    /\ mc.nb_simulations = MaxSims
    /\ mc.nombre_annees = 2
    /\ mc.investissement_annuel = One
    /\ mc_resultats.investissement_total = R(2)
    /\ mc_resultats.valeurs_finales[1] # mc_resultats.valeurs_finales[MaxSims]
    /\ IsFinite(mc_resultats.valeurs_finales[1])

NbTirages == mc.nb_simulations * (mc.nombre_annees - 1)

TrajectoireDuTirage(k) == k \div (mc.nombre_annees - 1)
PeriodeDuTirage(k) == (k % (mc.nombre_annees - 1)) + 1

\* the shocks of trajectory i (0-based) at periods 1..t, read off the draws
ChocsDeTrajectoire(i, t) ==
    [p \in 1..t |-> Tirage(bande, Graine42, i * (mc.nombre_annees - 1) + (p - 1))]

C26_OrdreDesTirages ==
    (gen.etat = "returned" /\ mc.nombre_annees >= 2) =>
        /\ \A k \in 0..(NbTirages - 1) :
               LET i == TrajectoireDuTirage(k)
                   t == PeriodeDuTirage(k)
               IN  /\ i \in 0..(mc.nb_simulations - 1)
                   /\ t \in 1..(mc.nombre_annees - 1)
                   /\ gen.derniere[i + 1][t + 1] =
                          Mul(gen.derniere[i + 1][t],
                              Facteur(mc.drift, mc.volatility, Tirage(bande, Graine42, k)))
        /\ \A i \in 0..(mc.nb_simulations - 1), t \in 1..(mc.nombre_annees - 1) :
               /\ Cardinality({k \in 0..(NbTirages - 1) :
                                  TrajectoireDuTirage(k) = i /\ PeriodeDuTirage(k) = t}) = 1
               /\ gen.derniere[i + 1][t + 1] =
                      PrixSimule(mc.prix_initial, mc.drift, mc.volatility,
                                 ChocsDeTrajectoire(i, t), t)

\* a matrix of two trajectories or more over three periods or more, with
\* positive volatility, in which draw 1 (period 2 of trajectory 0) differs
\* from draw nb_simulations (what a period-major order would put there) and
\* the price of trajectory 0 at period 2 tells the two apart
C26_Temoin ==
    /\ gen.etat = "returned"
    /\ mc.nb_simulations >= 2
    /\ mc.nombre_annees >= 3
    /\ Gt(mc.prix_initial, Zero)
    /\ Gt(mc.volatility, Zero)
    /\ Tirage(bande, Graine42, 1) # Tirage(bande, Graine42, mc.nb_simulations)
    /\ gen.derniere[1][3] #
           Mul(gen.derniere[1][2],
               Facteur(mc.drift, mc.volatility, Tirage(bande, Graine42, mc.nb_simulations)))

\* C23: a Monte Carlo run modifies no process-wide state: a call of
\* generer_trajectoires_prix, direct or made by simuler_dca_monte_carlo,
\* leaves the process-wide generator in the state it found, so the next draw
\* of other code is the one it would have been without the run.
C23_GenerateurIntact ==
    [][(GenererTrajectoiresPrix \/ SimulerDcaMonteCarlo)
           => /\ rng' = rng
              /\ Tirage(bande, rng', 0) = Tirage(bande, rng, 0)]_vars

----------------------------------------------------------------------------
(* Properties of reconfigured objects (checked under SpecReconf)           *)

\* the configuration in force: the arguments of the most recent
\* configure_simulation call, the constructor's values before any call
DernierReglageHist == IF DOMAIN hist_args = {} THEN HistDefaults ELSE hist_args

DernierReglageMC ==
    IF DOMAIN mc_args = {} THEN McDefaults
    ELSE LET params == GetMonteCarloParams(analyseur, mc_args.period)
         IN  [investissement_annuel |-> mc_args.investissement_annuel,
              nombre_annees |-> mc_args.nombre_annees,
              prix_initial |-> mc_args.prix_initial,
              frais_par_once |-> mc_args.frais_par_once,
              nb_simulations |-> mc_args.nb_simulations,
              drift |-> params.drift, volatility |-> params.volatility]

\* C22: after any sequence of configure_simulation and simulation calls on a
\* GoldDCASimulator or a MonteCarloGoldDCA, what the last simulation call
\* returned (or the error it raised) is the function of the arguments of the
\* most recent configure_simulation call and of the data series that a fresh
\* object computes; nothing of an earlier configuration or run enters it.
C22_DernierReglageSeul ==
    /\ HistAppele =>
           /\ hist_issue = IssueSimulerDca(DernierReglageHist, df).issue
           /\ hist_resultats = IssueSimulerDca(DernierReglageHist, df).resultats
    /\ McAppele =>
           IF GenererEchoue(DernierReglageMC)
           THEN mc_issue.etat = "IndexError"
           ELSE /\ McRetourne
                /\ mc_resultats = McResultatsDe(DernierReglageMC)

\* both objects were reconfigured away from every constructor value they
\* can change and have returned; the Monte Carlo object ran twice under its
\* configuration, other code having drawn from the generator in between
C22_Temoin ==
    /\ HistRetourne
    /\ DOMAIN hist_args # {}
    /\ hist_args.investissement_annuel = One
    /\ hist_args.nombre_annees = MaxAnnees
    /\ hist_args.annee_debut = 2001
    /\ hist_args.frais_par_once = Zero
    /\ hist_resultats # IssueSimulerDca(HistDefaults, df).resultats
    /\ McRetourne
    /\ DOMAIN mc_args # {}
    /\ mc_args.nombre_annees = 2
    /\ mc_args.frais_par_once = Zero
    /\ mc_args.nb_simulations = MaxSims
    /\ gen.appels = 2
    /\ gen.rng_avant # Graine42
    /\ gen.rng_avant # RngApres(mc, Graine42)
    /\ mc_resultats # McResultatsDe(McDefaults)

----------------------------------------------------------------------------
(* Properties of HybridDCASimulator (checked under SpecHybride)            *)

HybrideAppele == hybride.etat # "idle"

\* the last call asked for a historical part over a range with a year
\* missing from the series
PlageHistoriqueTrouee ==
    /\ HybrideAppele
    /\ hybride.annee_debut_historique # SansAnneeDebut
    /\ AnneesAbsentes(df, hist.annee_debut, HistAnneeFin) # {}

\* the period and trajectory counts of the call, read on the historical
\* simulator (configured first) and on the last outcome
PartieMCValide ==
    /\ hist.nombre_annees >= 1
    /\ hybride.partie_mc \notin {"IndexError", "ValueError"}

SuiteApresErreur ==
    /\ hybride.erreur_signalee
    /\ hybride.partie_mc = "remplie"
    /\ McRetourne
    /\ StatsRetourne
    /\ hybride.etat = "returned"
    /\ hybride.historique = "None"
    /\ hybride.monte_carlo = "rempli"

\* C27: in simulation_complete, whenever the historical part cannot run
\* because a year of [annee_debut_historique,
\* annee_debut_historique+nombre_annees-1] is missing from the series, the
\* error is reported, the Monte Carlo part is still executed, and the
\* dictionary returned has historique = None and monte_carlo filled.
C27_MonteCarloMalgreErreur ==
    PlageHistoriqueTrouee => SuiteApresErreur

\* the same when the missing year is the first or the last of the range and
\* the Monte Carlo arguments are valid
C27_BorneAbsente ==
    (PlageHistoriqueTrouee /\ PartieMCValide /\ hist_issue.etat = "ValueError")
        => SuiteApresErreur

\* C27 on the calls whose Monte Carlo arguments are valid: whenever a year
\* of the historical range is missing, the error is reported, the Monte
\* Carlo part is executed and the dictionary returned has historique = None
\* and monte_carlo filled.
C27_ArgumentsMCValides ==
    (PlageHistoriqueTrouee /\ PartieMCValide) => SuiteApresErreur

----------------------------------------------------------------------------
(* Properties of menu_principal (checked under SpecMenu)                   *)

ChoixFait == menu.choix # "aucun"

\* C28: menu_principal returns only when the choice "7" is entered; after
\* any other input (an invalid choice, or an option 1 to 6 with any values
\* typed at its prompts) the menu is displayed and a choice awaited again.
C28_MenuJusquAQuitter ==
    /\ menu.position = "returned" => menu.choix = "7"
    /\ (ChoixFait /\ menu.choix # "7") => menu.position = "choix"

\* the same for the inputs that are not an option 1, 2, 4, 5 or 6
C28_ChoixSansSimulation ==
    (ChoixFait /\ menu.choix \notin {"1", "2", "4", "5", "6", "7"})
        => menu.position = "choix"

\* the menu is left by a return only through the choice "7"
C28_RetourParQuitter ==
    menu.position = "returned" => menu.choix = "7"

----------------------------------------------------------------------------
(* Properties of calculer_statistiques (checked under SpecStats)           *)

\* C14: prob_profit is 100 x (number of profits > 0) / n, prob_perte is
\* 100 x (number of profits < 0) / n, and prob_profit + prob_perte <= 100
\* with equality exactly when no trajectory has a profit equal to 0.
C14_ProbabilitesProfitPerte ==
    StatsRetourne =>
        LET profits == mc_resultats.profits_finaux
            n == Len(profits)
            somme == Add(statistiques.dict.prob_profit, statistiques.dict.prob_perte)
        IN  /\ statistiques.dict.prob_profit =
                   Mul(Hundred, Norm(Cardinality({k \in 1..n : Gt(profits[k], Zero)}), n))
            /\ statistiques.dict.prob_perte =
                   Mul(Hundred, Norm(Cardinality({k \in 1..n : Lt(profits[k], Zero)}), n))
            /\ Le(somme, Hundred)
            /\ somme = Hundred <=> \A k \in 1..n : profits[k] # Zero

\* C15: var_5pct and var_1pct are the 5th and 1st percentiles of the profit
\* array itself (linear interpolation at position q x (n-1) of the sorted
\* array), signed as the profits, so that min(profits) <= var_1pct <= var_5pct.
C15_VaRSignee ==
    StatsRetourne =>
        LET profits == mc_resultats.profits_finaux
        IN  /\ statistiques.dict.var_5pct = Percentile(profits, 5)
            /\ statistiques.dict.var_1pct = Percentile(profits, 1)
            /\ \E k \in 1..Len(profits) : Le(profits[k], statistiques.dict.var_1pct)
            /\ Le(statistiques.dict.var_1pct, statistiques.dict.var_5pct)

\* C16: the medians reported for a non-empty outcome vector equal its 50th
\* percentile under the interpolation rule of the other percentiles, for
\* odd and even lengths.
C16_MedianeEgalePercentile50 ==
    StatsRetourne =>
        /\ statistiques.dict.rendement_median =
               Percentile(mc_resultats.rendements_finaux, 50)
        /\ statistiques.dict.valeur_mediane =
               Percentile(mc_resultats.valeurs_finales, 50)

\* statistics of an even number of outcomes whose median lies strictly
\* between two distinct values
C16_Temoin ==
    /\ StatsRetourne
    /\ Len(mc_resultats.valeurs_finales) = 2
    /\ ~ContientNaN(mc_resultats.valeurs_finales)
    /\ ~ContientNaN(mc_resultats.rendements_finaux)
    /\ Lt(MinTableau(mc_resultats.valeurs_finales), statistiques.dict.valeur_mediane)
    /\ Lt(statistiques.dict.valeur_mediane, MaxTableau(mc_resultats.valeurs_finales))
    /\ Lt(MinTableau(mc_resultats.rendements_finaux), statistiques.dict.rendement_median)

\* C30: for any non-empty result set, rendement_min <= rendement_p5 <=
\* rendement_p25 <= rendement_median <= rendement_p75 <= rendement_p95 <=
\* rendement_max and valeur_p5 <= valeur_mediane <= valeur_p95; and when
\* investissement_total > 0, prob_rendement_positif equals prob_profit.
RECURSIVE Croissante(_, _)
Croissante(s, k) == k <= 1 \/ (Le(s[k - 1], s[k]) /\ Croissante(s, k - 1))

StatistiquesOrdonnees ==
    LET d == statistiques.dict
    IN  /\ Croissante(<<d.rendement_min, d.rendement_p5, d.rendement_p25,
                        d.rendement_median, d.rendement_p75, d.rendement_p95,
                        d.rendement_max>>, 7)
        /\ Croissante(<<d.valeur_p5, d.valeur_mediane, d.valeur_p95>>, 3)

ProbabilitesEgales ==
    Gt(mc_resultats.investissement_total, Zero)
        => statistiques.dict.prob_rendement_positif = statistiques.dict.prob_profit

C30_StatistiquesOrdonnees ==
    StatsRetourne => (StatistiquesOrdonnees /\ ProbabilitesEgales)

\* the same on the result sets of valid configurations
C30_SurConfigValide ==
    (StatsRetourne /\ McConfigValide) => (StatistiquesOrdonnees /\ ProbabilitesEgales)

\* the same on result sets without nan
C30_SansNaN ==
    (StatsRetourne /\ ~ContientNaN(mc_resultats.rendements_finaux)
                   /\ ~ContientNaN(mc_resultats.valeurs_finales))
        => (StatistiquesOrdonnees /\ ProbabilitesEgales)

\* the equality of the two probabilities alone, on every result set
C30_ProbabilitesEgales == StatsRetourne => ProbabilitesEgales

----------------------------------------------------------------------------
(* Properties of GoldVolatilityAnalysis (checked under SpecAnalyse)        *)

ParamsDemandes == period_demandee # "none"

\* the years of the series that carry a return: every year but the first
AnneesDeRendement == {a \in DOMAIN df : \E b \in DOMAIN df : b < a}

\* the years carrying a return inside the inclusive window of the era nom
RendementsDansFenetre(nom) ==
    {a \in AnneesDeRendement : Periodes[nom][1] <= a /\ a <= Periodes[nom][2]}

\* the requested period is an era of the table with at least 2 returns
EreSuffisante(nom) ==
    IF nom \in DOMAIN Periodes THEN Cardinality(RendementsDansFenetre(nom)) >= 2 ELSE FALSE

\* C17: get_monte_carlo_params(period) returns the mean and the sample
\* standard deviation of the returns of the era's window when period names
\* an era holding at least 2 returns, and those of the returns of the entire
\* series otherwise (unknown name, or fewer than 2 returns in the window).
C17_ParamsEreOuSerieEntiere ==
    ParamsDemandes =>
        LET S == IF EreSuffisante(period_demandee)
                 THEN RendementsDansFenetre(period_demandee)
                 ELSE AnneesDeRendement
        IN  /\ mc_params.drift = Moyenne(analyseur, S)
            /\ mc_params.volatility = EcartType(analyseur, S)

\* parameters returned for an era with a single return: they are those of
\* the entire series, which differ from the statistics of the Modern era and
\* from the lone return of the requested era
C17_Temoin ==
    /\ period_demandee = "Stabilization"
    /\ Cardinality(RendementsDansFenetre("Stabilization")) = 1
    /\ EreSuffisante("Modern_Era")
    /\ mc_params.drift = Moyenne(analyseur, AnneesDeRendement)
    /\ mc_params.drift # Moyenne(analyseur, RendementsDansFenetre("Modern_Era"))
    /\ mc_params.drift # Moyenne(analyseur, RendementsDansFenetre("Stabilization"))
    /\ mc_params.volatility # EcartType(analyseur, RendementsDansFenetre("Modern_Era"))
    /\ IsFinite(mc_params.volatility)

\* C18: analyze_periods has an entry for an era exactly when at least 2
\* returns have their year in the era's inclusive window, a return belonging
\* to the later year of its price pair and the first year of the series
\* having none; an era with 0 or 1 return is absent and the call returns.
C18_EntreeSiDeuxRendements ==
    period_analysis.etat = "returned" =>
        /\ DOMAIN period_analysis.entrees = {nom \in DOMAIN Periodes : EreSuffisante(nom)}
        /\ \A nom \in DOMAIN period_analysis.entrees :
               period_analysis.entrees[nom].count = Cardinality(RendementsDansFenetre(nom))

\* an analysis with one era present and one absent, the absent era having
\* two price rows but a single return in its window
C18_Temoin ==
    /\ period_analysis.etat = "returned"
    /\ "Modern_Era" \in DOMAIN period_analysis.entrees
    /\ "Stabilization" \notin DOMAIN period_analysis.entrees
    /\ "Gold_Standard" \notin DOMAIN period_analysis.entrees
    /\ Cardinality({a \in DOMAIN df : 1981 <= a /\ a <= 2000}) = 2
    /\ Cardinality(RendementsDansFenetre("Stabilization")) = 1
    /\ Cardinality(RendementsDansFenetre("Gold_Standard")) = 0

\* C19: when get_monte_carlo_params falls back to the parameters of the
\* entire series, the record it returns is not labelled with the requested
\* period.
C19_RepliSignale ==
    (ParamsDemandes /\ ~EreSuffisante(period_demandee)) =>
        mc_params.period_used # period_demandee

====
